---- MODULE Spec2Model ----
(***************************************************************************)
(* Model of cldfbench_jipa.py: the raw-record parser (read_raw_source and  *)
(* its _splitter), normalize_grapheme, compute_id and the segment loop of  *)
(* Dataset.cmd_makecldf.                                                   *)
(*                                                                         *)
(* A Python str is a sequence of characters; a character is a one-letter   *)
(* string, or the name "U+XXXX" of a code point outside ASCII.             *)
(***************************************************************************)
EXTENDS Integers, Sequences, FiniteSets, TLC

VARIABLES
    pc,            \* position of the running function
    handler,       \* read_raw_source: the lines of the file not read yet
    section,       \* read_raw_source: label of the current section
    data,          \* read_raw_source: the record being built
    raw_dir,       \* cmd_makecldf: the *.txt files of raw/, in glob order
    file_idx,      \* cmd_makecldf: number of files taken from source_files
    clts,          \* cmd_makecldf: the catalog (grapheme_map and bipa)
    contents,      \* cmd_makecldf: the record of the current file
    all_segments,  \* cmd_makecldf: reduced segments still to be resolved
    segments,      \* cmd_makecldf: the (par_id, normalized, bipa, desc) tuples
    values,        \* cmd_makecldf: the Value Rows
    counter,       \* cmd_makecldf: the Value Row counter
    parameters,    \* cmd_makecldf: the Parameter Rows
    text,          \* argument of the function under call
    text2,         \* second argument (compute_id on a pair of strings)
    out1,          \* first result
    out2,          \* second result
    out3,          \* third result
    items          \* result of _splitter

vars == <<pc, handler, section, data, raw_dir, file_idx, clts, contents,
          all_segments, segments, values, counter, parameters,
          text, text2, out1, out2, out3, items>>

(***************************************************************************)
(* Characters and strings                                                  *)
(***************************************************************************)
COMB == "U+0301"       \* COMBINING ACUTE ACCENT
EACUTE == "U+00E9"     \* LATIN SMALL LETTER E WITH ACUTE
BOM == "U+FEFF"        \* the byte-order mark
OLDITALIC == "U+10301" \* OLD ITALIC LETTER BE, a code point above U+FFFF

\* None, as the value of a str-typed field or variable
None == <<"None">>

\* str.isspace() on the characters used here
IsSpace(c) == c \in {" ", "\t"}

\* all strings over alphabet A of length at most n
StringsUpTo(A, n) == UNION {[1..k -> A] : k \in 0..n}

\* text[1:-1]
Inner(s) == SubSeq(s, 2, Len(s) - 1)

\* s[i:] (i is 1-based here)
From(s, i) == SubSeq(s, i, Len(s))

RECURSIVE LStrip(_)
LStrip(s) == IF s # <<>> /\ IsSpace(s[1]) THEN LStrip(Tail(s)) ELSE s

RECURSIVE RStrip(_)
RStrip(s) ==
    IF s # <<>> /\ IsSpace(s[Len(s)]) THEN RStrip(SubSeq(s, 1, Len(s) - 1)) ELSE s

\* str.strip()
Strip(s) == RStrip(LStrip(s))

\* str.replace(c, "")
RECURSIVE Remove(_, _)
Remove(s, c) ==
    IF s = <<>> THEN <<>>
    ELSE IF s[1] = c THEN Remove(Tail(s), c)
    ELSE <<s[1]>> \o Remove(Tail(s), c)

\* "".join(parts)
RECURSIVE Join(_)
Join(parts) == IF parts = <<>> THEN <<>> ELSE parts[1] \o Join(Tail(parts))

(***************************************************************************)
(* compute_id                                                              *)
(***************************************************************************)
\* ord(char)
ord(c) ==
    CASE c = " " -> 32
      [] c = "\t" -> 9
      [] c = "#" -> 35
      [] c = "(" -> 40
      [] c = ")" -> 41
      [] c = "," -> 44
      [] c = "0" -> 48
      [] c = "A" -> 65
      [] c = "[" -> 91
      [] c = "]" -> 93
      [] c = "a" -> 97
      [] c = "e" -> 101
      [] c = "u" -> 117
      [] c = EACUTE -> 233
      [] c = COMB -> 769
      [] c = OLDITALIC -> 66305

HexDigits == <<"0", "1", "2", "3", "4", "5", "6", "7",
               "8", "9", "A", "B", "C", "D", "E", "F">>

\* the X presentation type: upper-case hexadecimal, no padding
RECURSIVE ToHex(_)
ToHex(n) ==
    IF n < 16 THEN <<HexDigits[n + 1]>>
    ELSE ToHex(n \div 16) \o <<HexDigits[(n % 16) + 1]>>

\* the 0{1} fill: zero-pad on the left up to the minimum width
RECURSIVE ZeroPad(_, _)
ZeroPad(s, width) == IF Len(s) >= width THEN s ELSE ZeroPad(<<"0">> \o s, width)

\* the minimum width passed to format()
HexWidth == 4

\* "u{0:0{1}X}".format(ord(char), 4)
CharRepr(c) == <<"u">> \o ZeroPad(ToHex(ord(c)), HexWidth)

\* unidecode(char): ASCII is kept, e-acute is transliterated, a combining
\* mark and a code point without a table give ""
unidecode_char(c) ==
    CASE c = EACUTE -> <<"e">>
      [] c \in {COMB, OLDITALIC, BOM} -> <<>>
      [] OTHER -> <<c>>

\* slug() of one ASCII character: lower-cased, punctuation and whitespace
\* removed
slug_char(c) ==
    CASE c = "A" -> <<"a">>
      [] c \in {"a", "e", "u", "0"} -> <<c>>
      [] OTHER -> <<>>

\* slug(s) for an ASCII string s
slug(s) == Join([i \in 1..Len(s) |-> slug_char(s[i])])

\* unidecode(text)
unidecode(s) == Join([i \in 1..Len(s) |-> unidecode_char(s[i])])

\* a plausible slip: the code point is cut to its low 16 bits
CharRepr_truncated(c) == <<"u">> \o ZeroPad(ToHex(ord(c) % 65536), HexWidth)

compute_id_truncated(s) ==
    slug(unidecode(s)) \o <<"_">> \o Join([i \in 1..Len(s) |-> CharRepr_truncated(s[i])])

compute_id(s) ==
    LET unicode_repr == Join([i \in 1..Len(s) |-> CharRepr(s[i])])
        label == slug(unidecode(s))
    IN  label \o <<"_">> \o unicode_repr

(***************************************************************************)
(* normalize_grapheme                                                      *)
(***************************************************************************)
\* unicodedata.normalize("NFC", text): e + combining acute composes
RECURSIVE NFC(_)
NFC(s) ==
    IF Len(s) < 2 THEN s
    ELSE IF s[1] = "e" /\ s[2] = COMB THEN <<EACUTE>> \o NFC(From(s, 3))
    ELSE <<s[1]>> \o NFC(Tail(s))

\* text after the "(" ... ")" test of lines 40-41
StripParens(s) == IF s[1] = "(" /\ s[Len(s)] = ")" THEN Inner(s) ELSE s

\* text after the "[" ... "]" test of lines 43-44
StripBrackets(s) == IF s[1] = "[" /\ s[Len(s)] = "]" THEN Inner(s) ELSE s

\* text[0] raises IndexError on line 40 or on line 43
normalize_raises(s) ==
    \/ NFC(s) = <<>>
    \/ StripParens(NFC(s)) = <<>>

\* a plausible slip: "or" for "and" in the tests
normalize_grapheme_or(s) ==
    LET a == NFC(s)
        b == IF a[1] = "(" \/ a[Len(a)] = ")" THEN Inner(a) ELSE a
    IN  IF b = <<>> THEN b
        ELSE IF b[1] = "[" \/ b[Len(b)] = "]" THEN Inner(b) ELSE b

\* the value returned when no IndexError is raised
normalize_grapheme(s) == StripBrackets(StripParens(NFC(s)))

(***************************************************************************)
(* read_raw_source._splitter                                               *)
(***************************************************************************)
Max(S) == CHOOSE x \in S : \A y \in S : y <= x

\* the number of whitespace characters of s from position i on
RECURSIVE SpaceRun(_, _)
SpaceRun(s, i) == IF i <= Len(s) /\ IsSpace(s[i]) THEN 1 + SpaceRun(s, i + 1) ELSE 0

\* a plausible slip: the character class of the lookahead excludes only ")"
LookaheadBody_anyOpen(s, j) == \E k \in j..Len(s) : s[k] = ")"

\* [^()]*\) matches at position j of s
LookaheadBody(s, j) ==
    \E k \in j..Len(s) : s[k] = ")" /\ \A m \in j..(k - 1) : s[m] \notin {"(", ")"}

\* ,\s*(?![^()]*\)) tried at position i of s: the position of the last
\* character of the match, or 0 when there is none.  \s* is greedy and gives
\* characters back until the negative lookahead succeeds.
SplitMatchEnd(s, i) ==
    LET ok == {k \in 0..SpaceRun(s, i + 1) : ~LookaheadBody(s, i + 1 + k)}
    IN  IF s[i] # "," \/ ok = {} THEN 0 ELSE i + Max(ok)

\* re.split(pattern, text), scanning from pos with the current piece
\* starting at start
RECURSIVE re_split(_, _, _)
re_split(s, pos, start) ==
    IF pos > Len(s) THEN <<SubSeq(s, start, Len(s))>>
    ELSE LET e == SplitMatchEnd(s, pos)
         IN  IF e = 0 THEN re_split(s, pos + 1, start)
             ELSE <<SubSeq(s, start, pos - 1)>> \o re_split(s, e + 1, e + 1)

NonEmpty(item) == item # <<>>

splitter(s) ==
    LET pieces == re_split(s, 1, 1)
        stripped == [i \in 1..Len(pieces) |-> Strip(pieces[i])]
    IN  SelectSeq(stripped, NonEmpty)

(***************************************************************************)
(* The allophone reduction of cmd_makecldf                                 *)
(***************************************************************************)
\* \([^)]*\) tried at position i of s: the position of the ")" that ends
\* the match, or 0 when there is none
SubMatchEnd(s, i) ==
    LET closes == {k \in (i + 1)..Len(s) : s[k] = ")"}
    IN  IF s[i] # "(" \/ closes = {} THEN 0
        ELSE CHOOSE k \in closes : \A m \in closes : k <= m

\* re.sub(r"\([^)]*\)", "", segment), scanning from pos
RECURSIVE re_sub(_, _)
re_sub(s, pos) ==
    IF pos > Len(s) THEN <<>>
    ELSE LET e == SubMatchEnd(s, pos)
         IN  IF e = 0 THEN <<s[pos]>> \o re_sub(s, pos + 1)
             ELSE re_sub(s, e + 1)

\* a plausible slip: the whole-token test looks at the first character only
reduce_firstOnly(segment) ==
    IF segment[1] = "(" THEN segment ELSE re_sub(segment, 1)

\* one iteration of the loop of lines 194-199: the element appended to
\* all_segments
reduce(segment) ==
    IF segment[1] = "(" /\ segment[Len(segment)] = ")" THEN segment
    ELSE re_sub(segment, 1)

(***************************************************************************)
(* read_raw_source                                                         *)
(***************************************************************************)
Reference == <<"R", "e", "f", "e", "r", "e", "n", "c", "e">>
Language == <<"L", "a", "n", "g", "u", "a", "g", "e">>
ISOCode == <<"I", "S", "O", " ", "C", "o", "d", "e">>
ConsonantInventory == <<"C", "o", "n", "s", "o", "n", "a", "n", "t", " ",
                        "I", "n", "v", "e", "n", "t", "o", "r", "y">>
VowelInventory == <<"V", "o", "w", "e", "l", " ",
                    "I", "n", "v", "e", "n", "t", "o", "r", "y">>

\* the record of lines 63-69
EmptyData ==
    [source |-> None, language_name |-> None, iso_code |-> None,
     consonants |-> <<>>, vowels |-> <<>>]

\* line 75
clean_line(line) == Strip(Remove(line, BOM))

\* a plausible slip: a line under an unrecognized section is kept as the
\* source
read_line_keepsUnknown(st, raw) ==
    LET line == clean_line(raw)
    IN  IF line = <<>> THEN st
        ELSE IF line[1] = "#" THEN [st EXCEPT !.section = Strip(Inner(line))]
        ELSE IF st.section = Language
             THEN [st EXCEPT !.data.language_name = line]
        ELSE IF st.section = ISOCode THEN [st EXCEPT !.data.iso_code = line]
        ELSE IF st.section = ConsonantInventory
             THEN [st EXCEPT !.data.consonants = @ \o splitter(line)]
        ELSE IF st.section = VowelInventory
             THEN [st EXCEPT !.data.vowels = @ \o splitter(line)]
        ELSE [st EXCEPT !.data.source = line]

\* the body of the loop of lines 73-91 on one line of the file;
\* st is [section, data]
read_line(st, raw) ==
    LET line == clean_line(raw)
    IN  IF line = <<>> THEN st
        ELSE IF line[1] = "#" THEN [st EXCEPT !.section = Strip(Inner(line))]
        ELSE IF st.section = Reference THEN [st EXCEPT !.data.source = line]
        ELSE IF st.section = Language
             THEN [st EXCEPT !.data.language_name = line]
        ELSE IF st.section = ISOCode THEN [st EXCEPT !.data.iso_code = line]
        ELSE IF st.section = ConsonantInventory
             THEN [st EXCEPT !.data.consonants = @ \o splitter(line)]
        ELSE IF st.section = VowelInventory
             THEN [st EXCEPT !.data.vowels = @ \o splitter(line)]
        ELSE st

\* the whole loop, from state st over the lines left
RECURSIVE read_lines(_, _)
read_lines(st, lines) ==
    IF lines = <<>> THEN st ELSE read_lines(read_line(st, Head(lines)), Tail(lines))

\* read_raw_source(filename), the file given as its lines
read_raw_source(lines) == read_lines([section |-> None, data |-> EmptyData], lines).data

(***************************************************************************)
(* The segment loop of cmd_makecldf                                        *)
(***************************************************************************)
\* str(counter)
RECURSIVE str(_)
str(n) ==
    IF n < 10 THEN <<HexDigits[n + 1]>>
    ELSE str(n \div 10) \o <<HexDigits[(n % 10) + 1]>>

UnknownSound == [unknown |-> TRUE, grapheme |-> <<>>, name |-> <<>>]

\* clts.bipa[key]: the sound of a key the catalog knows, else an
\* UnknownSound; str(sound) and sound.name are functions of the key
bipa(catalog, key) ==
    IF key \in catalog.known
    THEN [unknown |-> FALSE, grapheme |-> key, name |-> <<"n", ":">> \o key]
    ELSE UnknownSound

\* clts_jipa.grapheme_map.get(key, default)
map_get(catalog, key, default) ==
    IF key \in DOMAIN catalog.grapheme_map THEN catalog.grapheme_map[key] ELSE default

UNK == <<"U", "N", "K", "_">>
BIPA == <<"B", "I", "P", "A", "_">>

\* a plausible slip: the grapheme map is asked for the raw segment only
resolve_directOnly(catalog, segment) ==
    LET normalized == normalize_grapheme(segment)
        first == bipa(catalog, map_get(catalog, segment, <<>>))
        sound == IF first.unknown THEN bipa(catalog, normalized) ELSE first
    IN  IF sound.unknown
        THEN <<UNK \o compute_id(normalized), normalized, <<>>, <<>>>>
        ELSE <<BIPA \o compute_id(normalized), normalized, sound.grapheme, sound.name>>

\* lines 203-223: the tuple appended to segments for a segment on which
\* normalize_grapheme does not raise
resolve(catalog, segment) ==
    LET normalized == normalize_grapheme(segment)
        first == bipa(catalog,
                      map_get(catalog, segment, map_get(catalog, normalized, <<>>)))
        sound == IF first.unknown THEN bipa(catalog, normalized) ELSE first
    IN  IF sound.unknown
        THEN <<UNK \o compute_id(normalized), normalized, <<>>, <<>>>>
        ELSE <<BIPA \o compute_id(normalized), normalized, sound.grapheme, sound.name>>

\* a plausible slip: the vowels are taken before the consonants
SegmentsOf_vowelsFirst(record) == record.vowels \o record.consonants

\* contents["consonants"] + contents["vowels"], line 194
SegmentsOf(record) == record.consonants \o record.vowels

\* lines 193-199: all_segments of one file
AllSegments(record) ==
    LET raw == SegmentsOf(record) IN [i \in 1..Len(raw) |-> reduce(raw[i])]

\* a plausible slip: the normalized form is stored as the Value
ValueRow_normalized(n, lang_key, source, resolved, segment) ==
    [ID |-> str(n), Language_ID |-> lang_key, Marginal |-> FALSE,
     Parameter_ID |-> resolved[1], Value |-> resolved[2],
     Contribution_ID |-> lang_key, Source |-> <<source>>, Catalog |-> "jipa"]

\* the dict of lines 228-237; resolved is the tuple of line 223
ValueRow(n, lang_key, source, resolved, segment) ==
    [ID |-> str(n), Language_ID |-> lang_key, Marginal |-> FALSE,
     Parameter_ID |-> resolved[1], Value |-> segment,
     Contribution_ID |-> lang_key, Source |-> <<source>>, Catalog |-> "jipa"]

\* lines 242-245: one row for each element of set(segments)
Parameters(segs) ==
    {[ID |-> t[1], Name |-> t[2], BIPA |-> t[3], Description |-> t[4]] :
        t \in {segs[i] : i \in 1..Len(segs)}}

\* source_map of line 180, built from etc/languages.csv: ID -> Source
source_map == (<<"a">> :> "src1") @@ (<<"e">> :> "src2")

(***************************************************************************)
(* Inputs                                                                  *)
(***************************************************************************)
MaxLen == 5      \* longest string given to the string functions
MaxIdLen == 2    \* longest string of a pair given to compute_id
MaxLines == 3    \* most lines of a file given to read_raw_source
MaxFiles == 2    \* most files of raw/

TextAlphabet == {"(", ")", "[", "]", ",", " ", "e", COMB}
IdAlphabet == {"A", "a", "u", "0", COMB, OLDITALIC}

Hdr(label) == <<"#">> \o label \o <<"#">>

\* lines a raw file is made of
LineSet ==
    { Hdr(Reference), Hdr(Language), Hdr(ISOCode), Hdr(ConsonantInventory),
      Hdr(VowelInventory),
      <<"#", "N", "o", "t", "e", "s", "#">>,
      <<"#", " ", "L", "a", "n", "g", "u", "a", "g", "e", " ", "#", " ">>,
      <<BOM>> \o Hdr(VowelInventory),
      <<"#">> \o Language,
      <<" ">>,
      <<"A">>,
      <<" ", "e", ",", " ", "(", "e", ")", " ">>,
      <<"e", " ", "(", "a", ",", "e", ")", ",", ",", "a">> }

\* a well-formed raw file
File(lang, cons, vow) ==
    <<Hdr(Language), lang, Hdr(ConsonantInventory), cons, Hdr(VowelInventory), vow>>

\* the files raw/ may hold: well-formed ones (one of them with a segment
\* "()", one with five consonants), one without a Language section and one
\* of a language that languages.csv does not list
FileSet ==
    { File(<<"A">>, <<"e", ",", " ", "(", "e", ")">>, <<"e", COMB>>),
      File(<<"A">>, <<"e", "(", "a", ")", ",", "[", "e", "]">>, <<"(", ")">>),
      File(<<"e">>, <<"e", "(", "a", ")", ",", "[", "e", "]">>, <<"e", COMB>>),
      File(<<"e">>, <<"e", ",", "e", ",", "e", ",", "e", ",", "e">>, <<"e", COMB>>),
      <<Hdr(ConsonantInventory), <<"e">>>>,
      File(<<"u">>, <<"e">>, <<"e">>) }

MapKeys == { <<"(", "e", ")">>, <<"e">> }
Sounds == { <<"e">>, <<EACUTE>> }

\* the catalogs: a grapheme map on some of MapKeys, and the keys bipa knows
Catalogs ==
    { [grapheme_map |-> m, known |-> k] :
        m \in UNION {[D -> Sounds] : D \in SUBSET MapKeys}, k \in SUBSET Sounds }

(***************************************************************************)
(* Spec: a run of cmd_makecldf over the files of raw/                      *)
(***************************************************************************)
runVars == <<raw_dir, file_idx, clts, contents, all_segments, segments,
             values, counter, parameters>>
readVars == <<handler, section, data>>
callVars == <<text, text2, out1, out2, out3, items>>

Init ==
    /\ pc = "files"
    /\ raw_dir \in UNION {[1..n -> FileSet] : n \in 0..MaxFiles}
    /\ clts \in Catalogs
    /\ file_idx = 0
    /\ contents = EmptyData /\ all_segments = <<>> /\ segments = <<>>
    /\ values = <<>> /\ counter = 1 /\ parameters = {}
    /\ handler = <<>> /\ section = None /\ data = EmptyData
    /\ text = <<>> /\ text2 = <<>> /\ out1 = <<>> /\ out2 = <<>> /\ out3 = <<>>
    /\ items = <<>>

\* lines 187-199: the next file is read and its segments are reduced
NextFile ==
    /\ pc = "files"
    /\ file_idx < Len(raw_dir)
    /\ file_idx' = file_idx + 1
    /\ contents' = read_raw_source(raw_dir[file_idx + 1])
    /\ all_segments' = AllSegments(contents')
    /\ pc' = "segments"
    /\ UNCHANGED <<raw_dir, clts, segments, values, counter, parameters>>
    /\ UNCHANGED <<readVars, callVars>>

\* lines 201-239: one iteration of the loop over all_segments
ResolveSegment ==
    /\ pc = "segments"
    /\ all_segments # <<>>
    /\ LET segment == Head(all_segments)
       IN  IF normalize_raises(segment)
           THEN /\ pc' = "IndexError"
                /\ UNCHANGED <<all_segments, segments, values, counter>>
           ELSE LET resolved == resolve(clts, segment)
                    lang_key == slug(contents.language_name)
                IN  /\ segments' = Append(segments, resolved)
                    /\ IF contents.language_name = None
                       THEN /\ pc' = "TypeError"
                            /\ UNCHANGED <<all_segments, values, counter>>
                       ELSE IF lang_key \notin DOMAIN source_map
                       THEN /\ pc' = "KeyError"
                            /\ UNCHANGED <<all_segments, values, counter>>
                       ELSE /\ values' = Append(values,
                                  ValueRow(counter, lang_key, source_map[lang_key],
                                           resolved, segment))
                            /\ counter' = counter + 1
                            /\ all_segments' = Tail(all_segments)
                            /\ pc' = "segments"
    /\ UNCHANGED <<raw_dir, file_idx, clts, contents, parameters>>
    /\ UNCHANGED <<readVars, callVars>>

\* the loop over all_segments ends
EndFile ==
    /\ pc = "segments"
    /\ all_segments = <<>>
    /\ pc' = "files"
    /\ UNCHANGED <<runVars, readVars, callVars>>

\* lines 241-245: the loop over the files has ended
BuildParameters ==
    /\ pc = "files"
    /\ file_idx = Len(raw_dir)
    /\ parameters' = Parameters(segments)
    /\ pc' = "done"
    /\ UNCHANGED <<raw_dir, file_idx, clts, contents, all_segments, segments,
                   values, counter>>
    /\ UNCHANGED <<readVars, callVars>>

Next == NextFile \/ ResolveSegment \/ EndFile \/ BuildParameters

Spec == Init /\ [][Next]_vars

(***************************************************************************)
(* SpecParse: read_raw_source on the lines of one file                     *)
(***************************************************************************)
InitParse ==
    /\ pc = "reading"
    /\ handler \in UNION {[1..n -> LineSet] : n \in 0..MaxLines}
    /\ section = None /\ data = EmptyData
    /\ raw_dir = <<>> /\ file_idx = 0
    /\ clts = [grapheme_map |-> <<>>, known |-> {}]
    /\ contents = EmptyData /\ all_segments = <<>> /\ segments = <<>>
    /\ values = <<>> /\ counter = 1 /\ parameters = {}
    /\ text = <<>> /\ text2 = <<>> /\ out1 = <<>> /\ out2 = <<>> /\ out3 = <<>>
    /\ items = <<>>

\* lines 73-91: one line of the file
ReadLine ==
    /\ pc = "reading"
    /\ handler # <<>>
    /\ LET st == read_line([section |-> section, data |-> data], Head(handler))
       IN  section' = st.section /\ data' = st.data
    /\ handler' = Tail(handler)
    /\ UNCHANGED <<pc, runVars, callVars>>

\* line 93
Return ==
    /\ pc = "reading"
    /\ handler = <<>>
    /\ pc' = "returned"
    /\ contents' = data
    /\ UNCHANGED <<raw_dir, file_idx, clts, all_segments, segments, values,
                   counter, parameters>>
    /\ UNCHANGED <<readVars, callVars>>

NextParse == ReadLine \/ Return

SpecParse == InitParse /\ [][NextParse]_vars

(***************************************************************************)
(* SpecText: the string functions called on one string                     *)
(***************************************************************************)
InitText ==
    /\ pc = "start"
    /\ text \in StringsUpTo(TextAlphabet, MaxLen)
    /\ text2 = <<>> /\ out1 = <<>> /\ out2 = <<>> /\ out3 = <<>> /\ items = <<>>
    /\ handler = <<>> /\ section = None /\ data = EmptyData
    /\ raw_dir = <<>> /\ file_idx = 0
    /\ clts = [grapheme_map |-> <<>>, known |-> {}]
    /\ contents = EmptyData /\ all_segments = <<>> /\ segments = <<>>
    /\ values = <<>> /\ counter = 1 /\ parameters = {}

\* text is an item _splitter can return: it is the only item of the line
\* made of it
IsToken(s) == splitter(s) = <<s>>

\* _splitter(text), text a line of a segment list
Split ==
    /\ pc = "start"
    /\ items' = splitter(text)
    /\ pc' = "split"
    /\ UNCHANGED <<text, text2, out1, out2, out3, runVars, readVars>>

\* lines 195-199 on the segment text
Reduce ==
    /\ pc = "start"
    /\ IsToken(text)
    /\ out1' = reduce(text)
    /\ pc' = "reduced"
    /\ UNCHANGED <<text, text2, out2, out3, items, runVars, readVars>>

\* line 203 on the reduced segment
NormalizeSegment ==
    /\ pc = "reduced"
    /\ IF normalize_raises(out1)
       THEN pc' = "IndexError" /\ UNCHANGED out2
       ELSE pc' = "normalized" /\ out2' = normalize_grapheme(out1)
    /\ UNCHANGED <<text, text2, out1, out3, items, runVars, readVars>>

\* lines 216/220 on the normalized form
IdentifySegment ==
    /\ pc = "normalized"
    /\ out3' = compute_id(out2)
    /\ pc' = "identified"
    /\ UNCHANGED <<text, text2, out1, out2, items, runVars, readVars>>

\* normalize_grapheme(text)
Normalize ==
    /\ pc = "start"
    /\ IF normalize_raises(text)
       THEN pc' = "raised" /\ UNCHANGED out1
       ELSE pc' = "once" /\ out1' = normalize_grapheme(text)
    /\ UNCHANGED <<text, text2, out2, out3, items, runVars, readVars>>

\* normalize_grapheme(normalize_grapheme(text))
NormalizeAgain ==
    /\ pc = "once"
    /\ IF normalize_raises(out1)
       THEN pc' = "raised again" /\ UNCHANGED out2
       ELSE pc' = "twice" /\ out2' = normalize_grapheme(out1)
    /\ UNCHANGED <<text, text2, out1, out3, items, runVars, readVars>>

NextText ==
    \/ Split \/ Reduce \/ NormalizeSegment \/ IdentifySegment
    \/ Normalize \/ NormalizeAgain

SpecText == InitText /\ [][NextText]_vars

(***************************************************************************)
(* SpecId: compute_id called on two strings                                *)
(***************************************************************************)
InitId ==
    /\ pc = "start"
    /\ text \in StringsUpTo(IdAlphabet, MaxIdLen) \ {<<>>}
    /\ text2 \in StringsUpTo(IdAlphabet, MaxIdLen) \ {<<>>}
    /\ out1 = <<>> /\ out2 = <<>> /\ out3 = <<>> /\ items = <<>>
    /\ handler = <<>> /\ section = None /\ data = EmptyData
    /\ raw_dir = <<>> /\ file_idx = 0
    /\ clts = [grapheme_map |-> <<>>, known |-> {}]
    /\ contents = EmptyData /\ all_segments = <<>> /\ segments = <<>>
    /\ values = <<>> /\ counter = 1 /\ parameters = {}

ComputeIds ==
    /\ pc = "start"
    /\ out1' = compute_id(text)
    /\ out2' = compute_id(text2)
    /\ pc' = "identified"
    /\ UNCHANGED <<text, text2, out3, items, runVars, readVars>>

NextId == ComputeIds

SpecId == InitId /\ [][NextId]_vars

(***************************************************************************)
(* Properties of the string functions                                      *)
(***************************************************************************)
Last(s) == s[Len(s)]

\* s is bounded by the characters open and close
Bounded(s, open, close) == Len(s) >= 2 /\ s[1] = open /\ Last(s) = close

\* s without its bounding open ... close, when it has them
Unwrap(s, open, close) == IF Bounded(s, open, close) THEN Inner(s) ELSE s

\* s carries at most one layer of bounding parentheses and, inside it, at
\* most one layer of bounding square brackets, around a non-empty core that
\* is not bounded itself
SingleLayered(s) ==
    LET core == Unwrap(Unwrap(s, "(", ")"), "[", "]")
    IN  /\ core # <<>>
        /\ ~Bounded(core, "(", ")")
        /\ ~Bounded(core, "[", "]")

\* C4, as claimed: normalize_grapheme is idempotent on every string on which
\* it is defined: the second application is defined too and returns the
\* result of the first.
C4_Idempotent ==
    pc \in {"twice", "raised again"} => (pc = "twice" /\ out2 = out1)

\* C4, amended: normalize_grapheme(normalize_grapheme(x)) = normalize_grapheme(x)
\* for every string x with at most one layer of bounding parentheses and,
\* inside it, at most one layer of bounding square brackets around a
\* non-empty core that is not bounded itself.
C4_IdempotentOnSingleLayer ==
    (pc \in {"twice", "raised again"} /\ SingleLayered(text))
        => (pc = "twice" /\ out2 = out1)

\* a string in parentheses and, inside them, in square brackets was
\* normalized twice
C4_Witness ==
    /\ pc = "twice"
    /\ SingleLayered(text)
    /\ Bounded(text, "(", ")")
    /\ Bounded(Inner(text), "[", "]")
    /\ out1 = Inner(Inner(text))
    /\ out1 = <<"e">>
    /\ out2 = out1

\* C5: compute_id is injective: two non-empty strings whose code point
\* sequences differ get different identifiers.
C5_Injective ==
    (pc = "identified" /\ text # text2) => out1 # out2

\* two different strings with equal slugs, one of them with a code point of
\* five hexadecimal digits followed by another character
C5_Witness ==
    /\ pc = "identified"
    /\ text # text2
    /\ slug(unidecode(text)) = slug(unidecode(text2))
    /\ Len(text) = 2
    /\ text[1] = OLDITALIC
    /\ out1 # out2

IsParen(c) == c \in {"(", ")"}

\* the number of positions l..k of s that hold character c
Count(s, l, k, c) == Cardinality({m \in l..k : s[m] = c})

\* the "(" at l and the ")" at r are a matching pair
Matching(s, l, r) ==
    /\ l < r /\ s[l] = "(" /\ s[r] = ")"
    /\ Count(s, l, r, "(") = Count(s, l, r, ")")
    /\ \A k \in l..(r - 1) : Count(s, l, k, "(") > Count(s, l, k, ")")

\* position i lies between a "(" and its matching ")"
Enclosed(s, i) ==
    \E l \in 1..(i - 1) : \E r \in (i + 1)..Len(s) : Matching(s, l, r)

\* the first parenthesis character to the right of position i is ")"
ClosesNext(s, i) ==
    \E k \in (i + 1)..Len(s) :
        s[k] = ")" /\ \A m \in (i + 1)..(k - 1) : ~IsParen(s[m])

Commas(s) == {i \in 1..Len(s) : s[i] = ","}

\* the pieces of s cut at the positions of set cuts, from position start
RECURSIVE Pieces(_, _, _)
Pieces(s, cuts, start) ==
    LET next == {i \in cuts : i >= start}
    IN  IF next = {} THEN <<SubSeq(s, start, Len(s))>>
        ELSE LET i == CHOOSE x \in next : \A y \in next : x <= y
             IN  <<SubSeq(s, start, i - 1)>> \o Pieces(s, cuts, i + 1)

\* the pieces trimmed, the empty ones dropped
Tokens(s, cuts) ==
    LET ps == Pieces(s, cuts, 1)
    IN  SelectSeq([i \in 1..Len(ps) |-> Strip(ps[i])], NonEmpty)

\* the parentheses of s are balanced and not nested: "(" and ")" alternate
FlatParens(s) ==
    LET ps == SelectSeq(s, IsParen)
    IN  /\ Len(ps) % 2 = 0
        /\ \A k \in 1..Len(ps) : ps[k] = (IF k % 2 = 1 THEN "(" ELSE ")")

Trimmed(s) == s # <<>> /\ ~IsSpace(s[1]) /\ ~IsSpace(Last(s))

InSpan(s, i) ==
    /\ \E l \in 1..i : s[l] = "(" /\ \A k \in l..(i - 1) : s[k] # ")"
    /\ \E r \in i..Len(s) : s[r] = ")"

\* s without the characters of its parenthesized spans
WithoutSpans(s) ==
    LET keep == {i \in 1..Len(s) : ~InSpan(s, i)}
        F[n \in 0..Len(s)] ==
            IF n = 0 THEN <<>>
            ELSE IF n \in keep THEN Append(F[n - 1], s[n]) ELSE F[n - 1]
    IN  F[Len(s)]

\* s holds no "(" with a ")" to its right
NoSpan(s) == \A l \in 1..Len(s) : \A r \in (l + 1)..Len(s) : ~(s[l] = "(" /\ s[r] = ")")

\* C7, as claimed: the token is returned unchanged only when the "(" at its
\* first position is closed by the ")" at its last position; every other
\* token loses its parenthesized spans.
C7_UnchangedOnlyInOnePair ==
    pc = "reduced" =>
        IF Matching(text, 1, Len(text)) THEN out1 = text
        ELSE out1 = WithoutSpans(text) /\ NoSpan(out1)

\* C7, amended: the token is returned unchanged whenever its first
\* character is "(" and its last character is ")", whether or not the two
\* match each other; every other token loses each span from a "(" to the
\* first ")" after it, and the result holds no parenthesized span.
C7_UnchangedWhenEndsAreParens ==
    pc = "reduced" =>
        IF text[1] = "(" /\ Last(text) = ")" THEN out1 = text
        ELSE out1 = WithoutSpans(text) /\ NoSpan(out1)

\* a token that begins with one span and ends with another was reduced
C7_Witness ==
    /\ pc = "reduced"
    /\ text[1] = "(" /\ Last(text) = ")"
    /\ ~Matching(text, 1, Len(text))
    /\ out1 = text

\* a token with a span after its first character was reduced
C7_WitnessStripped ==
    /\ pc = "reduced"
    /\ text[1] = "e"
    /\ out1 = <<"e">>
    /\ Len(text) > 2

\* C10: for every token the splitter can return, reduction followed by
\* normalize_grapheme raises no IndexError and gives a non-empty normalized
\* form, so compute_id is not called on the empty string.
C10_NormalizedFormNonEmpty ==
    /\ pc # "IndexError"
    /\ pc \in {"normalized", "identified"} => out2 # <<>>

(***************************************************************************)
(* Properties of read_raw_source                                           *)
(***************************************************************************)
\* C9: a non-empty line that does not start with "#" changes only the field
\* its section selects: Reference, Language and ISO Code overwrite source,
\* language_name and iso_code with the line, Consonant Inventory and Vowel
\* Inventory append the line's tokens to consonants and vowels; under any
\* other section, or before any header, the record is unchanged; a header
\* line changes only the current section.
C9_LineChangesOnlyItsField ==
    [][(pc = "reading" /\ handler # <<>>) =>
         LET line == Strip(Remove(Head(handler), BOM))
         IN  \/ line = <<>>
             \/ line[1] = "#" /\ data' = data
             \/ /\ line[1] # "#"
                /\ section' = section
                /\ data' =
                     CASE section = Reference ->
                            [data EXCEPT !.source = line]
                       [] section = Language ->
                            [data EXCEPT !.language_name = line]
                       [] section = ISOCode ->
                            [data EXCEPT !.iso_code = line]
                       [] section = ConsonantInventory ->
                            [data EXCEPT !.consonants =
                                data.consonants \o splitter(line)]
                       [] section = VowelInventory ->
                            [data EXCEPT !.vowels = data.vowels \o splitter(line)]
                       [] OTHER -> data]_vars

\* a line with a comma was read under Language: it is the language name,
\* whole, and gave no segment
C9_Witness ==
    /\ pc = "returned"
    /\ section = Language
    /\ contents.language_name = <<"e", ",", " ", "(", "e", ")">>
    /\ contents.source = None
    /\ contents.consonants = <<>>

(***************************************************************************)
(* Properties of a run of cmd_makecldf                                     *)
(***************************************************************************)
\* the raw segments of the files taken so far, in the order of the files,
\* the consonants of a file before its vowels
Occurrences ==
    Join([i \in 1..file_idx |->
            LET record == read_raw_source(raw_dir[i])
            IN  record.consonants \o record.vowels])

\* the reduction of a raw segment
Reduced(s) ==
    IF s[1] = "(" /\ Last(s) = ")" THEN s ELSE WithoutSpans(s)

\* the run ended without an exception
Done == pc = "done"

\* C1: after the run, every Parameter_ID of a Value Row is the ID of exactly
\* one Parameter Row, and no two Parameter Rows share an ID.
C1_ParameterIDsUnique ==
    Done =>
        /\ \A k \in 1..Len(values) :
              Cardinality({r \in parameters : r.ID = values[k].Parameter_ID}) = 1
        /\ \A r1, r2 \in parameters : r1.ID = r2.ID => r1 = r2

\* C2, as claimed: the Value of the Value Row of a segment occurrence is the
\* segment as the parser produced it.
C2_ValueIsRawSegment ==
    LET raw == Occurrences
    IN  \A k \in 1..Len(values) : values[k].Value = raw[k]

\* C2, amended: the Value of the Value Row of a segment occurrence is the
\* reduced segment (the output of the allophone reduction, before
\* normalize_grapheme); it is the parser's segment only when the reduction
\* leaves the segment unchanged.
C2_ValueIsReducedSegment ==
    LET raw == Occurrences
    IN  \A k \in 1..Len(values) : values[k].Value = Reduced(raw[k])

\* a row was written for a segment that the reduction changed, and one for
\* a segment that normalize_grapheme changes
C2_Witness ==
    /\ Done
    /\ LET raw == Occurrences
       IN  \E k \in 1..Len(values) : values[k].Value # raw[k]
    /\ \E k \in 1..Len(values) :
          values[k].Value # normalize_grapheme(values[k].Value)

\* C3: one Value Row per segment occurrence, in the order of the files and
\* within a file the consonants before the vowels; the k-th row has ID k in
\* decimal, and the counter is not reset between files.
C3_SequentialValueRows ==
    LET raw == Occurrences
    IN  /\ Len(values) <= Len(raw)
        /\ \A k \in 1..Len(values) :
              /\ values[k].ID = str(k)
              /\ values[k].Value = Reduced(raw[k])
        /\ counter = Len(values) + 1
        /\ pc = "segments" => Len(values) + Len(all_segments) = Len(raw)
        /\ pc \in {"files", "done"} => Len(values) = Len(raw)

\* a run over two files ended, with rows of both files
C3_Witness ==
    /\ Done
    /\ file_idx = 2
    /\ Len(values) = 9
    /\ values[4].Language_ID # values[3].Language_ID
    /\ values[4].ID = <<"4">>

\* a run wrote a row with an ID of two digits
C3_WitnessTwoDigits ==
    /\ Done
    /\ Len(values) = 12
    /\ values[12].ID = <<"1", "2">>

\* the tuple the fallback order of the claim gives for a reduced segment
Fallback(catalog, segment) ==
    LET normalized == normalize_grapheme(segment)
        map == catalog.grapheme_map
        key == IF segment \in DOMAIN map THEN map[segment]
               ELSE IF normalized \in DOMAIN map THEN map[normalized]
               ELSE <<>>
        hit == IF key \in catalog.known THEN key ELSE normalized
    IN  IF key \notin catalog.known /\ normalized \notin catalog.known
        THEN <<UNK \o compute_id(normalized), normalized, <<>>, <<>>>>
        ELSE <<BIPA \o compute_id(normalized), normalized,
               bipa(catalog, hit).grapheme, bipa(catalog, hit).name>>

\* the map misses the segment and maps its normalized form to a known sound
NormalizedPathOnly(catalog, segment) ==
    LET normalized == normalize_grapheme(segment)
    IN  /\ segment \notin DOMAIN catalog.grapheme_map
        /\ normalized \in DOMAIN catalog.grapheme_map
        /\ catalog.grapheme_map[normalized] \in catalog.known

\* C8: the lookup key is the map entry of the unnormalized segment, else
\* that of the normalized string, else the empty string; the normalized
\* string is looked up in the main table only when the key is unknown there;
\* the result is UNK_ with empty grapheme and description iff both lookups
\* are unknown, else BIPA_ with the first lookup that is not unknown.  A
\* direct miss with a normalized hit on a known sound is never UNK_.
C8_FallbackOrder ==
    LET raw == Occurrences
    IN  \A k \in 1..Len(segments) :
            LET segment == Reduced(raw[k])
            IN  /\ segments[k] = Fallback(clts, segment)
                /\ NormalizedPathOnly(clts, segment) =>
                      SubSeq(segments[k][1], 1, Len(BIPA)) = BIPA

\* a segment was resolved through the map entry of its normalized form
\* alone: the main table knows neither the segment nor its normalized form
C8_Witness ==
    LET raw == Occurrences
    IN  \E k \in 1..Len(segments) :
            LET segment == Reduced(raw[k])
            IN  /\ NormalizedPathOnly(clts, segment)
                /\ normalize_grapheme(segment) \notin clts.known
                /\ segments[k][3] = clts.grapheme_map[normalize_grapheme(segment)]

====
